---- MODULE Spec2Model ----
(***************************************************************************)
(* A model of the galachain-dex core: the user-position paging query       *)
(* (getUserPositions), the swap state machine (processSwapSteps) and the   *)
(* protocol-fee configuration of a pool (configurePoolDexFee).             *)
(*                                                                         *)
(* Strings are sequences of one-character strings, so that building and    *)
(* parsing a bookmark are real conversions.                                *)
(***************************************************************************)
EXTENDS Integers, Sequences, FiniteSets, TLC

VARIABLES
    \* ---- getUserPositions -------------------------------------------------
    ledger,               \* the user's DexPositionOwner records, in key order
    dto,                  \* the request: [limit, bookmark]
    pc,                   \* "idle" | "loop" | "after" | "done" | "failed"
    currentPageBookmark,
    positionsToSkip,
    positionsRequired,
    newLocalBookmark,
    isLastIteration,
    userPositions,
    response,             \* [positions, bookmark] of the last finished call
    error,                \* the message of the error thrown, "" when none
    \* history of the paging session (what a caller observes)
    collected,            \* the positions of all calls of the session, in order
    engineBookmark,       \* the request's bookmark is "" or came from the last call
    fromStart,            \* the session started from the empty bookmark
    reads,                \* ledger pages fetched by the running call (their start index)
    lastCall,             \* the outcome of the call before, when it is made again
    \* ---- processSwapSteps -------------------------------------------------
    pool,                 \* the Pool object handed to processSwapSteps
    tickData,             \* the tick records of the pool, as committed on the ledger
    writes,               \* tick records written by the running transaction
    swap,                 \* the call: [amount, sqrtPriceLimit, exactInput, zeroForOne]
    state,                \* the SwapState
    step,                 \* the StepComputations of the last iteration
    spc,                  \* "running" | "returned" | "aborted" | "committed"
    swapError,            \* the message of the error thrown, "" when none
    hist,                 \* what the steps of the swap added up to
    before,               \* the pool and the tick records when the swap began
    swappedBefore,        \* the pool was left by an earlier swap of the session
    \* ---- configurePoolDexFee ----------------------------------------------
    protocolFeeConfig,    \* the DexFeeConfig on the ledger, or NoConfig
    pools,                \* the Pool objects on the ledger, by composite key
    callingUser,          \* ctx.callingUser
    feeDto,               \* the request: [token0, token1, fee, protocolFee]
    cfgPc,                \* "start" | "authorised" | "fetched" | "done" | "failed"
    fetchedPool,          \* the Pool object the call holds
    cfgError,             \* the error thrown, NoError when none
    cfgResponse,          \* the ConfigurePoolDexFeeResDto, NoFeeResponse before
    poolLookups,          \* the pool keys the call has looked up
    poolPuts,             \* the pool keys the call has written, in order
    poolsBefore           \* the pools on the ledger when the call began

pagingVars == <<ledger, dto, pc, currentPageBookmark, positionsToSkip,
                positionsRequired, newLocalBookmark, isLastIteration,
                userPositions, response, error, collected, engineBookmark,
                fromStart, reads, lastCall>>

swapVars == <<pool, tickData, writes, swap, state, step, spc, swapError, hist, before,
              swappedBefore>>

configVars == <<protocolFeeConfig, pools, callingUser, feeDto, cfgPc, fetchedPool,
                cfgError, cfgResponse, poolLookups, poolPuts, poolsBefore>>

vars == <<pagingVars, swapVars, configVars>>

(***************************************************************************)
(* Bounds of the model                                                     *)
(***************************************************************************)
MaxPages == 3        \* ledger pages of owner records per user
MaxLimit == 5        \* largest dto.limit tried
MaxLocal == 4        \* largest local offset of a caller-made bookmark

(***************************************************************************)
(* Strings                                                                 *)
(***************************************************************************)
EmptyString == <<>>

DigitChars == <<"0", "1", "2", "3", "4", "5", "6", "7", "8", "9">>

DigitValue(c) == (CHOOSE i \in 1..10 : DigitChars[i] = c) - 1

RECURSIVE NumToStr(_)
\* Number.prototype.toString() of a non-negative integer
NumToStr(n) ==
    IF n < 10 THEN <<DigitChars[n + 1]>>
    ELSE NumToStr(n \div 10) \o <<DigitChars[(n % 10) + 1]>>

RECURSIVE StrToNum(_)
\* Number(s) of a string of decimal digits; Number("") is 0
StrToNum(s) ==
    IF s = EmptyString THEN 0
    ELSE 10 * StrToNum(SubSeq(s, 1, Len(s) - 1)) + DigitValue(s[Len(s)])

Min(a, b) == IF a <= b THEN a ELSE b
Max(a, b) == IF a >= b THEN a ELSE b

(***************************************************************************)
(* Bookmarks: <chainBookmark>|<localBookmark>                              *)
(***************************************************************************)
Separator == "|"

SeparatorAt(s) ==
    IF \E i \in 1..Len(s) : s[i] = Separator
    THEN CHOOSE i \in 1..Len(s) : s[i] = Separator /\ \A j \in 1..(i - 1) : s[j] # Separator
    ELSE 0

genBookMark(chainBookmark, localBookmark) ==
    chainBookmark \o <<Separator>> \o localBookmark

splitBookmark(bookmark) ==
    LET at == SeparatorAt(bookmark) IN
    IF at = 0
    THEN [chainBookmark |-> bookmark, localBookmark |-> EmptyString]
    ELSE [chainBookmark |-> SubSeq(bookmark, 1, at - 1),
          localBookmark |-> SubSeq(bookmark, at + 1, Len(bookmark))]

(***************************************************************************)
(* The ledger: owner records in key order, served in pages of PAGE_SIZE    *)
(***************************************************************************)
PAGE_SIZE == 10

\* the key of the i-th owner record, the ledger's cursor to it
OwnerKey(i) == <<"k">> \o NumToStr(i)

OwnerIndex(cursor) == IF cursor = EmptyString THEN 1 ELSE StrToNum(Tail(cursor))

\* getObjectsByPartialCompositeKeyWithPagination: up to pageSize records from the
\* cursor on, and the cursor of the record after them ("" when there is none)
FetchPage(owners, cursor, pageSize) ==
    LET first == OwnerIndex(cursor)
        last  == Min(first + pageSize - 1, Len(owners))
    IN  [results  |-> SubSeq(owners, first, last),
         metadata |-> [bookmark |-> IF last < Len(owners)
                                     THEN OwnerKey(last + 1) ELSE EmptyString]]

RECURSIVE FlatMap(_, _)
\* Array.prototype.flatMap: Op(x) of every element, concatenated in order
FlatMap(Op(_), s) ==
    IF s = <<>> THEN <<>> ELSE Op(Head(s)) \o FlatMap(Op, Tail(s))

\* the (poolHash, tickRange, positionId) triplets of one owner record, in the
\* insertion order of its tickRangeMap and the list order of each entry
OwnerTriplets(owner) ==
    LET OfEntry(entry) ==
            [i \in 1..Len(entry.positionIds) |->
                [poolHash   |-> owner.poolHash,
                 tickRange  |-> entry.tickRange,
                 positionId |-> entry.positionIds[i]]]
    IN  FlatMap(OfEntry, owner.tickRangeMap)

PositionInfoList(results) == FlatMap(OwnerTriplets, results)

\* getDexPosition: the position stored under (poolHash, tickUpper, tickLower, id)
getDexPosition(positionInfo) == positionInfo

(***************************************************************************)
(* The ledgers tried: up to MaxPages full pages of owner records.  A page   *)
(* shape lists the tickRangeMap of its leading owners (the number of       *)
(* position ids under each tick range); the remaining owners of the page   *)
(* hold no position.                                                       *)
(***************************************************************************)
PageShapes ==
    { <<>>,                               \* no position in the page
      << <<1>> >>,                        \* 1 position
      << <<1, 2>> >>,                     \* 3 positions, one owner
      << <<>>, <<1, 2>>, <<1>> >> }       \* 4 positions, two owners

OwnerRecord(poolHash, counts) ==
    [poolHash     |-> poolHash,
     tickRangeMap |-> [r \in 1..Len(counts) |->
                          [tickRange   |-> r,
                           positionIds |-> [i \in 1..counts[r] |-> i]]]]

\* the owner records of the pages of shapes `shapes`, PAGE_SIZE to the page
LedgerOf(shapes) ==
    [h \in 1..(PAGE_SIZE * Len(shapes)) |->
        LET shape == shapes[((h - 1) \div PAGE_SIZE) + 1]
            slot  == ((h - 1) % PAGE_SIZE) + 1
        IN  OwnerRecord(h, IF slot <= Len(shape) THEN shape[slot] ELSE <<>>)]

Ledgers ==
    { LedgerOf(shapes) : shapes \in UNION { [1..n -> PageShapes] : n \in 0..MaxPages } }

NumPages(owners) == (Len(owners) + PAGE_SIZE - 1) \div PAGE_SIZE

\* the cursor the ledger hands out for its p-th page
PageCursor(p) == IF p = 1 THEN EmptyString ELSE OwnerKey((p - 1) * PAGE_SIZE + 1)

\* the bookmarks a caller may send: the empty one, and any page cursor with
\* any local offset (or none)
CallerBookmarks(owners) ==
    {EmptyString} \cup
    { genBookMark(PageCursor(p), local) :
        p \in 1..Max(1, NumPages(owners)),
        local \in {EmptyString} \cup { NumToStr(n) : n \in 0..MaxLocal } }

(***************************************************************************)
(* getUserPositions                                                        *)
(***************************************************************************)
NoResponse == [positions |-> <<>>, bookmark |-> EmptyString]

NoLastCall == [valid |-> FALSE, pc |-> "", response |-> NoResponse, error |-> ""]

PagingInit ==
    /\ ledger \in Ledgers
    /\ dto \in { [limit |-> l, bookmark |-> b] :
                    l \in 0..MaxLimit, b \in CallerBookmarks(ledger) }
    /\ pc = "idle"
    /\ currentPageBookmark = EmptyString
    /\ positionsToSkip = 0
    /\ positionsRequired = 0
    /\ newLocalBookmark = 0
    /\ isLastIteration = FALSE
    /\ userPositions = <<>>
    /\ response = NoResponse
    /\ error = ""
    /\ collected = <<>>
    /\ engineBookmark = (dto.bookmark = EmptyString)
    /\ fromStart = (dto.bookmark = EmptyString)
    /\ reads = {}
    /\ lastCall = NoLastCall

\* variant: the array of a call is the one the call before left
NewUserPositions_Leftover(leftover) == leftover

\* line 51: a call collects into an array of its own
NewUserPositions(leftover) == << >>

\* lines 44-51: split the bookmark and set up the locals
Enter ==
    /\ pc = "idle"
    /\ LET parts == splitBookmark(dto.bookmark) IN
        /\ currentPageBookmark' = parts.chainBookmark
        /\ positionsToSkip' = StrToNum(parts.localBookmark)
        /\ positionsRequired' = dto.limit
        /\ newLocalBookmark' = StrToNum(parts.localBookmark) + dto.limit
    /\ isLastIteration' = FALSE
    /\ userPositions' = NewUserPositions(userPositions)
    /\ reads' = {}
    /\ response' = NoResponse
    /\ pc' = "loop"
    /\ UNCHANGED <<ledger, dto, error, collected, engineBookmark, fromStart,
                   lastCall, swapVars, configVars>>

RECURSIVE FetchSelected_AlwaysLast(_, _, _)
\* variant: every position fetched is taken for the last one of its page
FetchSelected_AlwaysLast(selectedPositionId, positionInfoIndex, st) ==
    IF positionInfoIndex > Len(selectedPositionId) THEN st
    ELSE LET next ==
                [userPositions     |-> Append(st.userPositions,
                                              getDexPosition(selectedPositionId[positionInfoIndex])),
                 positionsRequired |-> st.positionsRequired - 1,
                 isLastIteration   |-> TRUE]
         IN  IF next.positionsRequired = 0 THEN next
             ELSE FetchSelected_AlwaysLast(selectedPositionId, positionInfoIndex + 1, next)

RECURSIVE FetchSelected(_, _, _)
\* lines 100-113: push the selected positions one by one until positionsRequired
\* reaches 0; st = [userPositions, positionsRequired, isLastIteration]
FetchSelected(selectedPositionId, positionInfoIndex, st) ==
    IF positionInfoIndex > Len(selectedPositionId) THEN st
    ELSE LET next ==
                [userPositions     |-> Append(st.userPositions,
                                              getDexPosition(selectedPositionId[positionInfoIndex])),
                 positionsRequired |-> st.positionsRequired - 1,
                 isLastIteration   |-> positionInfoIndex = Len(selectedPositionId)]
         IN  IF next.positionsRequired = 0 THEN next
             ELSE FetchSelected(selectedPositionId, positionInfoIndex + 1, next)

\* variant: the positions still to skip are left out of the local bookmark
LocalAfterFetch_RequiredOnly(previous, toSkip, required) == required

\* variant: the local bookmark is not recomputed after a fetch
LocalAfterFetch_Stale(previous, toSkip, required) == previous

\* line 63: newLocalBookmark = positionsToSkip + positionsRequired, after each fetch
LocalAfterFetch(previous, toSkip, required) == toSkip + required

\* line 117: while (positionsRequired && currentPageBookmark)
LoopAgain(required, bookmark) == required # 0 /\ bookmark # EmptyString

\* lines 53-117: one pass of the do-while body, then its condition
Iterate ==
    /\ pc = "loop"
    /\ LET userPositionInfo == FetchPage(ledger, currentPageBookmark, PAGE_SIZE)
           positionInfoList == PositionInfoList(userPositionInfo.results)
           nextBookmark     == userPositionInfo.metadata.bookmark
       IN
        /\ reads' = reads \cup {OwnerIndex(currentPageBookmark)}
        /\ newLocalBookmark' = LocalAfterFetch(newLocalBookmark, positionsToSkip,
                                               positionsRequired)
        /\ IF Len(positionInfoList) = 0
           THEN IF nextBookmark # EmptyString
                THEN \* skip empty user position objects; continue
                     /\ currentPageBookmark' = nextBookmark
                     /\ pc' = IF LoopAgain(positionsRequired, nextBookmark)
                              THEN "loop" ELSE "after"
                     /\ UNCHANGED <<positionsToSkip, positionsRequired,
                                    isLastIteration, userPositions>>
                ELSE \* the user has no (more) positions; break
                     /\ isLastIteration' = TRUE
                     /\ currentPageBookmark' = EmptyString
                     /\ pc' = "after"
                     /\ UNCHANGED <<positionsToSkip, positionsRequired, userPositions>>
           ELSE IF positionsToSkip >= Len(positionInfoList)
                THEN \* the whole page was consumed before; continue
                     /\ positionsToSkip' = positionsToSkip - Len(positionInfoList)
                     /\ currentPageBookmark' = nextBookmark
                     /\ pc' = IF LoopAgain(positionsRequired, nextBookmark)
                              THEN "loop" ELSE "after"
                     /\ UNCHANGED <<positionsRequired, isLastIteration, userPositions>>
                ELSE LET selectedPositionId ==
                             SubSeq(positionInfoList, positionsToSkip + 1,
                                    Len(positionInfoList))
                         st == FetchSelected(selectedPositionId, 1,
                                 [userPositions     |-> userPositions,
                                  positionsRequired |-> positionsRequired,
                                  isLastIteration   |-> isLastIteration])
                         bookmark == IF st.isLastIteration THEN nextBookmark
                                     ELSE currentPageBookmark
                     IN  /\ positionsToSkip' = 0
                         /\ userPositions' = st.userPositions
                         /\ positionsRequired' = st.positionsRequired
                         /\ isLastIteration' = st.isLastIteration
                         /\ currentPageBookmark' = bookmark
                         /\ pc' = IF LoopAgain(st.positionsRequired, bookmark)
                                  THEN "loop" ELSE "after"
    /\ UNCHANGED <<ledger, dto, response, error, collected, engineBookmark, fromStart,
                   lastCall, swapVars, configVars>>

\* variant: the local offset is written also after a page was consumed to its end
NewBookmark_KeepLocal(bookmark, isLast, newLocal) ==
    IF bookmark = EmptyString /\ isLast
    THEN EmptyString
    ELSE genBookMark(bookmark, NumToStr(newLocal))

\* lines 125-128: the bookmark handed back
NewBookmark(bookmark, isLast, newLocal) ==
    IF bookmark = EmptyString /\ isLast
    THEN EmptyString
    ELSE genBookMark(bookmark, IF isLast THEN EmptyString ELSE NumToStr(newLocal))

\* lines 119-122: positions left to skip after the data ran out
Throw ==
    /\ pc = "after"
    /\ positionsToSkip # 0
    /\ error' = "Invalid bookmark"
    /\ pc' = "failed"
    /\ UNCHANGED <<ledger, dto, currentPageBookmark, positionsToSkip,
                   positionsRequired, newLocalBookmark, isLastIteration,
                   userPositions, response, collected, engineBookmark, fromStart,
                   reads, lastCall, swapVars, configVars>>

\* lines 124-133: build the response
Return ==
    /\ pc = "after"
    /\ positionsToSkip = 0
    /\ response' = [positions |-> userPositions,
                    bookmark  |-> NewBookmark(currentPageBookmark, isLastIteration,
                                              newLocalBookmark)]
    /\ collected' = collected \o userPositions
    /\ pc' = "done"
    /\ UNCHANGED <<ledger, dto, currentPageBookmark, positionsToSkip,
                   positionsRequired, newLocalBookmark, isLastIteration,
                   userPositions, error, engineBookmark, fromStart, reads, lastCall,
                   swapVars, configVars>>

\* the caller asks for the next page with the bookmark it was handed
NextPage ==
    /\ pc = "done"
    /\ response.bookmark # EmptyString
    /\ dto' = [dto EXCEPT !.bookmark = response.bookmark]
    /\ engineBookmark' = TRUE
    /\ pc' = "idle"
    /\ UNCHANGED <<ledger, currentPageBookmark, positionsToSkip, positionsRequired,
                   newLocalBookmark, isLastIteration, userPositions, response,
                   error, collected, fromStart, reads, lastCall, swapVars, configVars>>

\* the caller makes the same call once more, on the same ledger
CallAgain ==
    /\ pc \in {"done", "failed"}
    /\ ~lastCall.valid
    /\ lastCall' = [valid |-> TRUE, pc |-> pc, response |-> response, error |-> error]
    /\ error' = ""
    /\ collected' = <<>>
    /\ fromStart' = FALSE
    /\ pc' = "idle"
    /\ UNCHANGED <<ledger, dto, currentPageBookmark, positionsToSkip, positionsRequired,
                   newLocalBookmark, isLastIteration, userPositions, response,
                   engineBookmark, reads, swapVars, configVars>>

PagingNext == Enter \/ Iterate \/ Throw \/ Return \/ NextPage

PagingAgainNext == Enter \/ Iterate \/ Throw \/ Return \/ CallAgain


(***************************************************************************)
(* What a caller can say about a ledger without running the query          *)
(***************************************************************************)
AllPositions == PositionInfoList(ledger)

\* the positions of the p-th ledger page
PagePositions(p) ==
    PositionInfoList(SubSeq(ledger, (p - 1) * PAGE_SIZE + 1,
                            Min(p * PAGE_SIZE, Len(ledger))))

\* the ledger page a position lives in, and its index within that page
PageOfPosition(pos) == ((pos.poolHash - 1) \div PAGE_SIZE) + 1

IndexInPage(pos) ==
    CHOOSE i \in 1..Len(PagePositions(PageOfPosition(pos))) :
        PagePositions(PageOfPosition(pos))[i] = pos

\* the page a bookmark's chain cursor points to, and its local offset
BookmarkPage(b) == ((OwnerIndex(splitBookmark(b).chainBookmark) - 1) \div PAGE_SIZE) + 1

BookmarkLocal(b) == StrToNum(splitBookmark(b).localBookmark)

RECURSIVE PositionsBefore(_)
\* the number of positions in the ledger pages before page p
PositionsBefore(p) ==
    IF p <= 1 THEN 0 ELSE PositionsBefore(p - 1) + Len(PagePositions(p - 1))

\* the number of positions from the start of page p to the end of the data
PositionsFrom(p) == Len(AllPositions) - PositionsBefore(p)

\* the global index of the position a bookmark starts after
StartPoint(b) == PositionsBefore(BookmarkPage(b)) + BookmarkLocal(b)

\* the numbers of positions of the ledger's pages
Distribution == [p \in 1..NumPages(ledger) |-> Len(PagePositions(p))]

\* C1: a session that starts from the empty bookmark with a limit >= 1 and feeds
\* each returned bookmark into the next call never fails; after every call the
\* positions collected so far are exactly the first ones of the user's ordered
\* list, up to the point the returned bookmark names (the whole list when the
\* bookmark is empty); every non-empty bookmark returned is ahead of the one
\* sent, so the session ends, with the empty bookmark; and one call whose limit
\* is at least the number of positions returns that same whole list.
C1_BookmarkRoundTrip ==
    (fromStart /\ dto.limit >= 1) =>
        /\ pc # "failed"
        /\ pc = "done" =>
            /\ collected = SubSeq(AllPositions, 1, Len(collected))
            /\ IF response.bookmark = EmptyString
               THEN collected = AllPositions
               ELSE /\ Len(collected) = StartPoint(response.bookmark)
                    /\ \/ BookmarkPage(response.bookmark) > BookmarkPage(dto.bookmark)
                       \/ /\ BookmarkPage(response.bookmark) = BookmarkPage(dto.bookmark)
                          /\ BookmarkLocal(response.bookmark) > BookmarkLocal(dto.bookmark)
            /\ (dto.bookmark = EmptyString /\ dto.limit >= Len(AllPositions))
                   => response.positions = AllPositions

\* C1 witness: a session of at least three calls has ended with the empty bookmark
C1_Witness ==
    /\ fromStart /\ dto.limit >= 1 /\ pc = "done"
    /\ response.bookmark = EmptyString
    /\ Len(collected) >= 2 * dto.limit + 1
    /\ BookmarkLocal(dto.bookmark) > 0

\* C2: a finished call returns at most dto.limit positions
C2_AtMostLimit ==
    pc = "done" => Len(response.positions) <= dto.limit

\* C3: when the last position returned is not the last one of its ledger page,
\* the bookmark returned is that page's cursor with the number of positions of
\* the page returned or skipped so far; with the positions spread 3/0/4 over
\* three pages, limit 5 and the empty bookmark, the call returns the 3 positions
\* of page 1 and the first 2 of page 3, with the bookmark (page 3, 2).
C3_PartialPageBookmark ==
    pc = "done" =>
        /\ (/\ response.positions # <<>>
            /\ LET last == response.positions[Len(response.positions)]
               IN  IndexInPage(last) < Len(PagePositions(PageOfPosition(last))))
           => LET last == response.positions[Len(response.positions)]
              IN  response.bookmark =
                      genBookMark(PageCursor(PageOfPosition(last)),
                                  NumToStr(IndexInPage(last)))
        /\ (Distribution = <<3, 0, 4>> /\ dto.limit = 5 /\ dto.bookmark = EmptyString)
           => /\ response.positions = PagePositions(1) \o SubSeq(PagePositions(3), 1, 2)
              /\ response.bookmark = genBookMark(PageCursor(3), NumToStr(2))

\* C3 witness: the 3/0/4 scenario has run
C3_Witness ==
    /\ pc = "done" /\ Distribution = <<3, 0, 4>>
    /\ dto.limit = 5 /\ dto.bookmark = EmptyString
    /\ Len(response.positions) = 5

\* the request's local offset lies beyond the data that follows its chain cursor
SkipsPastData == BookmarkLocal(dto.bookmark) > PositionsFrom(BookmarkPage(dto.bookmark))

\* C4 (as claimed): a request whose local offset skips past the data fails with
\* "Invalid bookmark" and returns nothing, and a request whose bookmark was
\* returned by the previous call never fails.
C4_InvalidBookmark ==
    /\ (SkipsPastData /\ pc \in {"done", "failed"})
           => (pc = "failed" /\ error = "Invalid bookmark" /\ response = NoResponse)
    /\ (engineBookmark /\ dto.bookmark # EmptyString) => pc # "failed"

\* C5: for a limit >= 1 and a bookmark that is empty or came from the previous
\* call, a call that returns the empty bookmark has returned every position
\* after the request's starting point.
C5_EmptyMeansExhausted ==
    (pc = "done" /\ dto.limit >= 1 /\ engineBookmark /\ response.bookmark = EmptyString)
        => response.positions =
               SubSeq(AllPositions, StartPoint(dto.bookmark) + 1, Len(AllPositions))

\* C5 witness: a later call of a session returned positions and the empty bookmark
C5_Witness ==
    /\ pc = "done" /\ dto.limit >= 1 /\ engineBookmark
    /\ dto.bookmark # EmptyString
    /\ response.bookmark = EmptyString
    /\ response.positions # <<>>

(***************************************************************************)
(* Decimal arithmetic.  A number is an integer count of the finest unit a  *)
(* division result keeps; DUST of them make one unit of the canonical      *)
(* scale (18 fractional digits).  Sums, differences and products are       *)
(* exact, a quotient is rounded half up to the finest unit.                *)
(***************************************************************************)
DUST == 2

\* f18: truncate toward zero to the canonical scale
f18(x) == IF x >= 0 THEN (x \div DUST) * DUST ELSE -(((-x) \div DUST) * DUST)

\* BigNumber.dividedBy for a divisor b > 0
DividedBy(a, b) ==
    IF a >= 0 THEN (2 * a + b) \div (2 * b) ELSE -((2 * (-a) + b) \div (2 * b))

Abs(x) == IF x >= 0 THEN x ELSE -x

(***************************************************************************)
(* Tick math, on a linear price scale: TICK_WIDTH price units per tick     *)
(***************************************************************************)
MAX_TICK == 8
MIN_TICK == -MAX_TICK
TICK_WIDTH == 4
PRICE_ORIGIN == 100

tickToSqrtPrice(t) == PRICE_ORIGIN + TICK_WIDTH * t

\* the greatest tick whose price is at most p
sqrtPriceToTick(p) == (p - PRICE_ORIGIN) \div TICK_WIDTH

(***************************************************************************)
(* Tick bitmap: the set of initialised ticks, scanned one word at a time   *)
(***************************************************************************)
WORD_BITS == 4

SetMax(S) == CHOOSE x \in S : \A y \in S : y <= x
SetMin(S) == CHOOSE x \in S : \A y \in S : x <= y

\* the closest initialised tick of the current word in the direction of travel
\* (lte: at or below the current tick), or the word's boundary tick
nextInitialisedTickWithInSameWord(bitmap, tick, tickSpacing, lte, sqrtPrice) ==
    LET compressed == tick \div tickSpacing IN
    IF lte
    THEN LET pos   == compressed % WORD_BITS
             found == { c \in (compressed - pos)..compressed : (c * tickSpacing) \in bitmap }
         IN  IF found # {}
             THEN [tickNext |-> SetMax(found) * tickSpacing, initialised |-> TRUE]
             ELSE [tickNext |-> (compressed - pos) * tickSpacing, initialised |-> FALSE]
    ELSE LET pos   == (compressed + 1) % WORD_BITS
             last  == compressed + 1 + (WORD_BITS - 1 - pos)
             found == { c \in (compressed + 1)..last : (c * tickSpacing) \in bitmap }
         IN  IF found # {}
             THEN [tickNext |-> SetMin(found) * tickSpacing, initialised |-> TRUE]
             ELSE [tickNext |-> last * tickSpacing, initialised |-> FALSE]

(***************************************************************************)
(* The swap-step primitive                                                 *)
(***************************************************************************)
FEE_PIPS == 10

\* the amount of either token that moves the price from a to b at liquidity l
AmountDelta(a, b, l) == l * Abs(b - a)

computeSwapStep(sqrtPriceCurrent, sqrtPriceTarget, liquidity, amountRemaining, fee) ==
    LET zeroForOne == sqrtPriceCurrent >= sqrtPriceTarget
        exactInput == amountRemaining >= 0
        toTarget   == AmountDelta(sqrtPriceCurrent, sqrtPriceTarget, liquidity)
        lessFee    == DividedBy(amountRemaining * (FEE_PIPS - fee), FEE_PIPS)
        reaches    == IF exactInput THEN lessFee >= toTarget
                                    ELSE -amountRemaining >= toTarget
        \* not reaching the target implies liquidity > 0
        move       == IF exactInput
                      THEN lessFee \div liquidity
                      ELSE ((-amountRemaining) + liquidity - 1) \div liquidity
        sqrtPriceNext ==
            IF reaches THEN sqrtPriceTarget
            ELSE IF zeroForOne THEN Max(sqrtPriceCurrent - move, sqrtPriceTarget)
                 ELSE Min(sqrtPriceCurrent + move, sqrtPriceTarget)
        max        == sqrtPriceNext = sqrtPriceTarget
        amountIn   == AmountDelta(sqrtPriceCurrent, sqrtPriceNext, liquidity)
        amountOut  == IF ~exactInput
                      THEN Min(AmountDelta(sqrtPriceCurrent, sqrtPriceNext, liquidity),
                               -amountRemaining)
                      ELSE AmountDelta(sqrtPriceCurrent, sqrtPriceNext, liquidity)
        feeAmount  == IF exactInput /\ ~max
                      THEN amountRemaining - amountIn
                      ELSE DividedBy(amountIn * fee, FEE_PIPS - fee)
    IN  [sqrtPrice |-> sqrtPriceNext, amountIn |-> amountIn,
         amountOut |-> amountOut, feeAmount |-> feeAmount]

(***************************************************************************)
(* Tick records                                                            *)
(***************************************************************************)
NewTick == [liquidityNet |-> 0, feeGrowthOutside0 |-> 0, feeGrowthOutside1 |-> 0]

\* the tick record the running transaction sees: its own write, else the
\* ledger's record, else a new one
TickRecord(committed, written, tick) ==
    IF tick \in DOMAIN written THEN written[tick]
    ELSE IF tick \in DOMAIN committed THEN committed[tick]
    ELSE NewTick

\* fetchOrCreateAndCrossTick: flip the tick's outside fee growth against the
\* globals, write the record, return its liquidityNet
fetchOrCreateAndCrossTick(committed, written, tick, feeGrowthGlobal0, feeGrowthGlobal1) ==
    LET record == TickRecord(committed, written, tick)
        crossed == [record EXCEPT
                      !.feeGrowthOutside0 = feeGrowthGlobal0 - record.feeGrowthOutside0,
                      !.feeGrowthOutside1 = feeGrowthGlobal1 - record.feeGrowthOutside1]
    IN  [liquidityNet |-> record.liquidityNet,
         writes |-> [t \in (DOMAIN written) \cup {tick} |->
                        IF t = tick THEN crossed ELSE written[t]]]

(***************************************************************************)
(* Pools.  A pool is built from the liquidity positions minted into it, so *)
(* that its active liquidity and its ticks' liquidityNet agree.            *)
(* pool.protocolFees is the fraction protocolFees / PROTOCOL_FEE_SCALE;    *)
(* state.protocolFee and the fee left after the protocol's cut are counted *)
(* in 1 / PROTOCOL_FEE_SCALE of the finest unit, which keeps the product   *)
(* feeAmount * protocolFees exact.                                         *)
(***************************************************************************)
PROTOCOL_FEE_SCALE == 4

\* the fee-growth accumulators count 1/GROWTH_SCALE of the finest unit per unit
\* of liquidity
GROWTH_SCALE == 1000

TICK_SPACING == 2

MintedPositions ==
    << [tickLower |-> -2, tickUpper |-> 2,  liquidity |-> 5],
       [tickLower |-> -6, tickUpper |-> -2, liquidity |-> 20],
       [tickLower |-> 2,  tickUpper |-> 4,  liquidity |-> 20],
       [tickLower |-> -4, tickUpper |-> 6,  liquidity |-> 25],
       [tickLower |-> -6, tickUpper |-> 6,  liquidity |-> 5] >>

RECURSIVE SumOver(_, _)
\* the sum of Op(i) over the finite set of integers S
SumOver(Op(_), S) ==
    IF S = {} THEN 0
    ELSE LET i == SetMin(S) IN Op(i) + SumOver(Op, S \ {i})

\* the liquidityNet of tick t under the minted positions `minted` (indices)
LiquidityNetOf(minted, t) ==
    LET Net(i) == IF MintedPositions[i].tickLower = t THEN MintedPositions[i].liquidity
                  ELSE IF MintedPositions[i].tickUpper = t
                       THEN -MintedPositions[i].liquidity ELSE 0
    IN  SumOver(Net, minted)

\* the liquidity in range at tick t
ActiveLiquidity(minted, t) ==
    LET InRange(i) == IF MintedPositions[i].tickLower <= t /\ t < MintedPositions[i].tickUpper
                      THEN MintedPositions[i].liquidity ELSE 0
    IN  SumOver(InRange, minted)

InitialisedTicks(minted) ==
    { MintedPositions[i].tickLower : i \in minted } \cup
    { MintedPositions[i].tickUpper : i \in minted }

PoolOf(minted, sqrtPrice, fee, protocolFees) ==
    [sqrtPrice          |-> sqrtPrice,
     tick               |-> sqrtPriceToTick(sqrtPrice),
     liquidity          |-> ActiveLiquidity(minted, sqrtPriceToTick(sqrtPrice)),
     fee                |-> fee,
     protocolFees       |-> protocolFees,
     tickSpacing        |-> TICK_SPACING,
     bitmap             |-> InitialisedTicks(minted),
     feeGrowthGlobal0   |-> 3 * GROWTH_SCALE,
     feeGrowthGlobal1   |-> 5 * GROWTH_SCALE,
     protocolFeesToken0 |-> 0,
     protocolFeesToken1 |-> 0]

\* a tick's outside fee growth starts as the global one when the tick is at or
\* below the current tick, as 0 otherwise
TickDataOf(minted, p) ==
    [t \in InitialisedTicks(minted) |->
        [liquidityNet      |-> LiquidityNetOf(minted, t),
         feeGrowthOutside0 |-> IF t <= p.tick THEN p.feeGrowthGlobal0 ELSE 0,
         feeGrowthOutside1 |-> IF t <= p.tick THEN p.feeGrowthGlobal1 ELSE 0]]

\* the SwapState the swap starts from
SeedState(p, amount, zeroForOne) ==
    [sqrtPrice                |-> p.sqrtPrice,
     tick                     |-> p.tick,
     liquidity                |-> p.liquidity,
     amountSpecifiedRemaining |-> amount,
     amountCalculated         |-> 0,
     feeGrowthGlobalX         |-> IF zeroForOne THEN p.feeGrowthGlobal0
                                  ELSE p.feeGrowthGlobal1,
     protocolFee              |-> 0]

NoStep ==
    [sqrtPriceStart |-> 0, tickNext |-> 0, sqrtPriceNext |-> 0, initialised |-> FALSE,
     amountOut |-> 0, amountIn |-> 0, feeAmount |-> 0,
     \* not fields of StepComputations: what the iteration saw and did
     target |-> 0, feeCharged |-> 0, delta |-> 0, liquidityStart |-> 0,
     feeGrowthStart |-> 0, protocolFeeStart |-> 0, tickStart |-> 0, crossed |-> FALSE]

NoHistory ==
    [steps |-> 0, amountIn |-> 0, feeAmount |-> 0, delta |-> 0,
     liquidSteps |-> 0, creditedSteps |-> 0, crossings |-> 0]

\* the prices a caller may set as its limit: the bound of the tick range, a
\* tick's price, a price between two ticks
LimitsBelow == { tickToSqrtPrice(MIN_TICK), tickToSqrtPrice(-2), tickToSqrtPrice(-1) + 1 }
LimitsAbove == { tickToSqrtPrice(MAX_TICK), tickToSqrtPrice(2), tickToSqrtPrice(1) + 1 }

StartPrices == { tickToSqrtPrice(0), tickToSqrtPrice(0) + 2, tickToSqrtPrice(1) }

Amounts == { 2, 8, 30, 110, 400 }

SwapIdle ==
    /\ pool = PoolOf({}, tickToSqrtPrice(0), 1, 0)
    /\ tickData = << >>
    /\ writes = << >>
    /\ swap = [amount |-> 0, sqrtPriceLimit |-> tickToSqrtPrice(0),
               exactInput |-> TRUE, zeroForOne |-> TRUE]
    /\ state = SeedState(pool, 0, TRUE)
    /\ step = NoStep
    /\ spc = "idle"
    /\ swapError = ""
    /\ hist = NoHistory
    /\ before = [pool |-> pool, tickData |-> tickData]
    /\ swappedBefore = FALSE

PagingIdle ==
    /\ ledger = <<>>
    /\ dto = [limit |-> 1, bookmark |-> EmptyString]
    /\ pc = "off"
    /\ currentPageBookmark = EmptyString
    /\ positionsToSkip = 0
    /\ positionsRequired = 0
    /\ newLocalBookmark = 0
    /\ isLastIteration = FALSE
    /\ userPositions = <<>>
    /\ response = NoResponse
    /\ error = ""
    /\ collected = <<>>
    /\ engineBookmark = FALSE
    /\ fromStart = FALSE
    /\ reads = {}
    /\ lastCall = NoLastCall

SwapInit ==
    /\ \E minted \in SUBSET (1..Len(MintedPositions)), sqrtPrice \in StartPrices,
          fee \in {1, 5}, protocolFees \in {0, 1, PROTOCOL_FEE_SCALE} :
            /\ pool = PoolOf(minted, sqrtPrice, fee, protocolFees)
            /\ tickData = TickDataOf(minted, pool)
    /\ \E zeroForOne \in BOOLEAN, exactInput \in BOOLEAN, amount \in Amounts :
        \E limit \in (IF zeroForOne THEN LimitsBelow ELSE LimitsAbove) :
            swap = [amount |-> IF exactInput THEN amount ELSE -amount,
                    sqrtPriceLimit |-> limit,
                    exactInput |-> exactInput, zeroForOne |-> zeroForOne]
    /\ state = SeedState(pool, swap.amount, swap.zeroForOne)
    /\ writes = << >>
    /\ step = NoStep
    /\ spc = "running"
    /\ swapError = ""
    /\ hist = NoHistory
    /\ before = [pool |-> pool, tickData |-> tickData]
    /\ swappedBefore = FALSE

(***************************************************************************)
(* processSwapSteps                                                        *)
(***************************************************************************)
\* lines 59-63: there is amount left to swap and the price is not at the limit
LoopCondition(st, sqrtPriceLimit) ==
    f18(st.amountSpecifiedRemaining) # 0 /\ st.sqrtPrice # sqrtPriceLimit

\* variant: only the lower bound is checked
TickOutOfBounds_LowerOnly(tickNext) == tickNext < MIN_TICK

\* line 85: the next tick is out of bounds
TickOutOfBounds(tickNext) == tickNext < MIN_TICK \/ tickNext > MAX_TICK

\* variant: the next tick's price is used whatever the limit
StepTarget_NoClamp(zeroForOne, sqrtPriceNext, sqrtPriceLimit) == sqrtPriceNext

\* lines 95-101: the price computeSwapStep is to move toward
StepTarget(zeroForOne, sqrtPriceNext, sqrtPriceLimit) ==
    IF (IF zeroForOne THEN sqrtPriceNext < sqrtPriceLimit
                      ELSE sqrtPriceNext > sqrtPriceLimit)
    THEN sqrtPriceLimit
    ELSE sqrtPriceNext

\* variant: the exact-output signs are used for every swap
UpdateAmounts_Mirrored(st, exactInput, amountIn, amountOut, feeAmount) ==
    [st EXCEPT
        !.amountSpecifiedRemaining = st.amountSpecifiedRemaining + amountOut,
        !.amountCalculated = st.amountCalculated + (amountIn + feeAmount)]

\* variant: the remaining amount is left as it was
UpdateAmounts_KeepRemaining(st, exactInput, amountIn, amountOut, feeAmount) ==
    IF exactInput
    THEN [st EXCEPT !.amountCalculated = st.amountCalculated - amountOut]
    ELSE [st EXCEPT !.amountCalculated = st.amountCalculated + (amountIn + feeAmount)]

\* variant: the fee is not taken off the remaining input
UpdateAmounts_NoFee(st, exactInput, amountIn, amountOut, feeAmount) ==
    IF exactInput
    THEN [st EXCEPT
            !.amountSpecifiedRemaining = st.amountSpecifiedRemaining - amountIn,
            !.amountCalculated = st.amountCalculated - amountOut]
    ELSE [st EXCEPT
            !.amountSpecifiedRemaining = st.amountSpecifiedRemaining + amountOut,
            !.amountCalculated = st.amountCalculated + (amountIn + feeAmount)]

\* lines 108-116: the amounts after a step
UpdateAmounts(st, exactInput, amountIn, amountOut, feeAmount) ==
    IF exactInput
    THEN [st EXCEPT
            !.amountSpecifiedRemaining = st.amountSpecifiedRemaining - (amountIn + feeAmount),
            !.amountCalculated = st.amountCalculated - amountOut]
    ELSE [st EXCEPT
            !.amountSpecifiedRemaining = st.amountSpecifiedRemaining + amountOut,
            !.amountCalculated = st.amountCalculated + (amountIn + feeAmount)]

\* variant: the protocol takes the liquidity providers' share
ProtocolDelta_LpShare(feeAmount, protocolFees) ==
    IF protocolFees > 0 THEN feeAmount * (PROTOCOL_FEE_SCALE - protocolFees) ELSE 0

\* lines 119-120: the protocol's share of a step's fee, in 1/PROTOCOL_FEE_SCALE units
ProtocolDelta(feeAmount, protocolFees) ==
    IF protocolFees > 0 THEN feeAmount * protocolFees ELSE 0

\* the fee per unit of liquidity, in 1/GROWTH_SCALE of the finest unit; lpFee is
\* in 1/PROTOCOL_FEE_SCALE units
FeePerLiquidity(lpFee, liquidity) ==
    DividedBy(lpFee * GROWTH_SCALE, PROTOCOL_FEE_SCALE * liquidity)

\* variant: the quotient replaces the accumulator instead of being added to it
FeeGrowthAfter_Assign(feeGrowthGlobalX, liquidity, lpFee) ==
    IF liquidity > 0
    THEN FeePerLiquidity(lpFee, liquidity)
    ELSE feeGrowthGlobalX

\* lines 121, 126-128: the fee left to the liquidity providers is divided by the
\* liquidity and added
FeeGrowthAfter(feeGrowthGlobalX, liquidity, lpFee) ==
    IF liquidity > 0
    THEN feeGrowthGlobalX + FeePerLiquidity(lpFee, liquidity)
    ELSE feeGrowthGlobalX

\* variant: liquidityNet is added whatever the direction
LiquidityAfterCross_NoNegate(liquidity, liquidityNet, zeroForOne) ==
    liquidity + liquidityNet

\* lines 141-144: the liquidity after crossing a tick
LiquidityAfterCross(liquidity, liquidityNet, zeroForOne) ==
    liquidity + (IF zeroForOne THEN -liquidityNet ELSE liquidityNet)

\* variant: the pool's accumulators are handed over, without the swap's fees
CrossingFeeGrowth_PoolOnly(zeroForOne, feeGrowthGlobalX, p) ==
    [feeGrowthGlobal0 |-> p.feeGrowthGlobal0, feeGrowthGlobal1 |-> p.feeGrowthGlobal1]

\* lines 138-139: the fee-growth pair handed to fetchOrCreateAndCrossTick
CrossingFeeGrowth(zeroForOne, feeGrowthGlobalX, p) ==
    [feeGrowthGlobal0 |-> IF zeroForOne THEN feeGrowthGlobalX ELSE p.feeGrowthGlobal0,
     feeGrowthGlobal1 |-> IF zeroForOne THEN p.feeGrowthGlobal1 ELSE feeGrowthGlobalX]

\* variant: every tick reached is crossed, initialised or not
CrossesTick_Uninitialised(reached, initialised) == reached

\* lines 131-133: the step ends on the next tick's price and that tick is
\* initialised
CrossesTick(reached, initialised) == reached /\ initialised

\* variant: going down, the tick becomes the next tick itself
TickAfterStep_NoMinusOne(reached, zeroForOne, tickNext, sqrtPrice, sqrtPriceStart, tick) ==
    IF reached
    THEN tickNext
    ELSE IF sqrtPrice # sqrtPriceStart
         THEN sqrtPriceToTick(sqrtPrice)
         ELSE tick

\* variant: the tick is not recomputed from the price
TickAfterStep_NoRecompute(reached, zeroForOne, tickNext, sqrtPrice, sqrtPriceStart, tick) ==
    IF reached
    THEN (IF zeroForOne THEN tickNext - 1 ELSE tickNext)
    ELSE tick

\* lines 131, 147-151: the tick after a step
TickAfterStep(reached, zeroForOne, tickNext, sqrtPrice, sqrtPriceStart, tick) ==
    IF reached
    THEN (IF zeroForOne THEN tickNext - 1 ELSE tickNext)
    ELSE IF sqrtPrice # sqrtPriceStart
         THEN sqrtPriceToTick(sqrtPrice)
         ELSE tick

\* lines 59-152: one iteration of the loop
SwapStep ==
    /\ spc = "running"
    /\ LoopCondition(state, swap.sqrtPriceLimit)
    /\ LET next == nextInitialisedTickWithInSameWord(pool.bitmap, state.tick,
                        pool.tickSpacing, swap.zeroForOne, state.sqrtPrice)
       IN
       IF TickOutOfBounds(next.tickNext)
       THEN \* the error leaves the function; the transaction's writes are dropped
            /\ swapError' = "Not enough liquidity available in pool"
            /\ spc' = "aborted"
            /\ writes' = << >>
            /\ step' = [NoStep EXCEPT !.sqrtPriceStart = state.sqrtPrice,
                                      !.tickNext = next.tickNext,
                                      !.initialised = next.initialised,
                                      !.tickStart = state.tick,
                                      !.liquidityStart = state.liquidity,
                                      !.feeGrowthStart = state.feeGrowthGlobalX,
                                      !.protocolFeeStart = state.protocolFee]
            /\ UNCHANGED <<pool, tickData, swap, state, hist, before, swappedBefore>>
       ELSE
         LET sqrtPriceNext == tickToSqrtPrice(next.tickNext)
             target   == StepTarget(swap.zeroForOne, sqrtPriceNext, swap.sqrtPriceLimit)
             computed == computeSwapStep(state.sqrtPrice, target, state.liquidity,
                                         state.amountSpecifiedRemaining, pool.fee)
             moved    == UpdateAmounts([state EXCEPT !.sqrtPrice = computed.sqrtPrice],
                                       swap.exactInput, computed.amountIn,
                                       computed.amountOut, computed.feeAmount)
             delta    == ProtocolDelta(computed.feeAmount, pool.protocolFees)
             lpFee    == computed.feeAmount * PROTOCOL_FEE_SCALE - delta
             growth   == FeeGrowthAfter(state.feeGrowthGlobalX, state.liquidity, lpFee)
             reached  == computed.sqrtPrice = sqrtPriceNext
             handed   == CrossingFeeGrowth(swap.zeroForOne, growth, pool)
             cross    == fetchOrCreateAndCrossTick(tickData, writes, next.tickNext,
                            handed.feeGrowthGlobal0, handed.feeGrowthGlobal1)
             crosses  == CrossesTick(reached, next.initialised)
             liquidity == IF crosses
                          THEN LiquidityAfterCross(state.liquidity, cross.liquidityNet,
                                                   swap.zeroForOne)
                          ELSE state.liquidity
             tick     == TickAfterStep(reached, swap.zeroForOne, next.tickNext,
                                       computed.sqrtPrice, state.sqrtPrice, state.tick)
         IN
            /\ state' = [moved EXCEPT !.protocolFee = state.protocolFee + delta,
                                      !.feeGrowthGlobalX = growth,
                                      !.liquidity = liquidity,
                                      !.tick = tick]
            /\ writes' = IF crosses THEN cross.writes ELSE writes
            /\ step' = [sqrtPriceStart |-> state.sqrtPrice,
                        tickNext       |-> next.tickNext,
                        sqrtPriceNext  |-> sqrtPriceNext,
                        initialised    |-> next.initialised,
                        amountOut      |-> computed.amountOut,
                        amountIn       |-> computed.amountIn,
                        feeAmount      |-> lpFee,
                        target         |-> target,
                        feeCharged     |-> computed.feeAmount,
                        delta          |-> delta,
                        liquidityStart |-> state.liquidity,
                        feeGrowthStart |-> state.feeGrowthGlobalX,
                        protocolFeeStart |-> state.protocolFee,
                        tickStart      |-> state.tick,
                        crossed        |-> crosses]
            /\ hist' = [steps         |-> hist.steps + 1,
                        amountIn      |-> hist.amountIn + computed.amountIn,
                        feeAmount     |-> hist.feeAmount + computed.feeAmount,
                        delta         |-> hist.delta + delta,
                        liquidSteps   |-> hist.liquidSteps +
                                              (IF state.liquidity > 0 THEN 1 ELSE 0),
                        creditedSteps |-> hist.creditedSteps +
                                              (IF /\ state.liquidity > 0
                                                  /\ FeePerLiquidity(lpFee, state.liquidity) > 0
                                               THEN 1 ELSE 0),
                        crossings     |-> hist.crossings +
                                              (IF crosses THEN 1 ELSE 0)]
            /\ UNCHANGED <<pool, tickData, swap, spc, swapError, before, swappedBefore>>
    /\ UNCHANGED <<pagingVars, configVars>>

\* line 154: the loop is left, the state is returned
SwapReturn ==
    /\ spc = "running"
    /\ ~LoopCondition(state, swap.sqrtPriceLimit)
    /\ spc' = "returned"
    /\ UNCHANGED <<pool, tickData, writes, swap, state, step, swapError, hist, before,
                   swappedBefore>>
    /\ UNCHANGED <<pagingVars, configVars>>

\* the caller writes the returned state back to the pool and the transaction's
\* writes reach the ledger
SwapCommit ==
    /\ spc = "returned"
    /\ pool' = [pool EXCEPT
                  !.sqrtPrice = state.sqrtPrice,
                  !.tick = state.tick,
                  !.liquidity = state.liquidity,
                  !.feeGrowthGlobal0 = IF swap.zeroForOne THEN state.feeGrowthGlobalX ELSE @,
                  !.feeGrowthGlobal1 = IF swap.zeroForOne THEN @ ELSE state.feeGrowthGlobalX,
                  !.protocolFeesToken0 = IF swap.zeroForOne THEN @ + state.protocolFee ELSE @,
                  !.protocolFeesToken1 = IF swap.zeroForOne THEN @ ELSE @ + state.protocolFee]
    /\ tickData' = [t \in (DOMAIN tickData) \cup (DOMAIN writes) |->
                       TickRecord(tickData, writes, t)]
    /\ writes' = << >>
    /\ spc' = "committed"
    /\ UNCHANGED <<swap, state, step, swapError, hist, before, swappedBefore>>
    /\ UNCHANGED <<pagingVars, configVars>>

SwapNext == SwapStep \/ SwapReturn \/ SwapCommit

\* the amounts of a swap that follows another one
AmountsAgain == { 8, 400 }

\* processSwapSteps is called once more, on the pool and the tick records the
\* swap before it left on the ledger
SwapAgain ==
    /\ spc = "committed"
    /\ ~swappedBefore
    /\ \E zeroForOne \in BOOLEAN, exactInput \in BOOLEAN, amount \in AmountsAgain :
          /\ swap' = [amount |-> IF exactInput THEN amount ELSE -amount,
                      sqrtPriceLimit |-> tickToSqrtPrice(IF zeroForOne THEN MIN_TICK
                                                         ELSE MAX_TICK),
                      exactInput |-> exactInput, zeroForOne |-> zeroForOne]
          /\ state' = SeedState(pool, swap'.amount, zeroForOne)
    /\ writes' = << >>
    /\ step' = NoStep
    /\ spc' = "running"
    /\ swapError' = ""
    /\ hist' = NoHistory
    /\ before' = [pool |-> pool, tickData |-> tickData]
    /\ swappedBefore' = TRUE
    /\ UNCHANGED <<pool, tickData>>
    /\ UNCHANGED <<pagingVars, configVars>>

SwapAgainNext == SwapStep \/ SwapReturn \/ SwapCommit \/ SwapAgain


(***************************************************************************)
(* Properties of processSwapSteps                                          *)
(***************************************************************************)
AfterStep == spc \in {"running", "returned"} /\ hist.steps >= 1

\* the fee-growth accumulator of the paid-in token when the swap began
FeeGrowthAtStart ==
    IF swap.zeroForOne THEN before.pool.feeGrowthGlobal0 ELSE before.pool.feeGrowthGlobal1

\* C6: when an exact-input swap returns, the amountIn + feeAmount of all its
\* steps add up to the specified amount minus the remaining one, and the
\* remaining amount is 0 under f18 unless the price is at the limit, where it is
\* a positive residue on which no fee was charged (the last step's fee is the
\* fee on its amountIn).
C6_AmountConservation ==
    (spc = "returned" /\ swap.exactInput) =>
        /\ hist.amountIn + hist.feeAmount = swap.amount - state.amountSpecifiedRemaining
        /\ state.sqrtPrice # swap.sqrtPriceLimit => f18(state.amountSpecifiedRemaining) = 0
        /\ f18(state.amountSpecifiedRemaining) # 0 =>
              /\ state.amountSpecifiedRemaining > 0
              /\ step.feeCharged = DividedBy(step.amountIn * pool.fee, FEE_PIPS - pool.fee)

\* C6 witness: an exact-input swap of several steps returned at the price limit
\* with a residue, having paid fees
C6_Witness ==
    /\ spc = "returned" /\ swap.exactInput
    /\ hist.steps >= 2 /\ hist.feeAmount > 0
    /\ f18(state.amountSpecifiedRemaining) # 0
    /\ state.sqrtPrice = swap.sqrtPriceLimit

\* C7: the target handed to computeSwapStep is the next tick's price clamped to
\* the limit (max when zeroForOne, min otherwise), and after every step the
\* price is on the permitted side of the limit.
C7_PriceWithinLimit ==
    AfterStep =>
        /\ step.target = IF swap.zeroForOne
                         THEN Max(step.sqrtPriceNext, swap.sqrtPriceLimit)
                         ELSE Min(step.sqrtPriceNext, swap.sqrtPriceLimit)
        /\ swap.zeroForOne => state.sqrtPrice >= swap.sqrtPriceLimit
        /\ ~swap.zeroForOne => state.sqrtPrice <= swap.sqrtPriceLimit

\* C7 witness: a step whose next tick lies beyond the limit stopped at the limit
C7_Witness ==
    /\ AfterStep /\ swap.zeroForOne
    /\ step.sqrtPriceNext < swap.sqrtPriceLimit
    /\ state.sqrtPrice = swap.sqrtPriceLimit
    /\ step.sqrtPriceStart > swap.sqrtPriceLimit

\* C8: the swap fails exactly when the bitmap's next tick lies outside
\* [MIN_TICK, MAX_TICK], with the error "Not enough liquidity available in
\* pool"; the pool and every tick record are then as they were before the swap,
\* ticks crossed in earlier iterations included, and no write is pending.
C8_InsufficientLiquidity ==
    /\ (step.tickNext < MIN_TICK \/ step.tickNext > MAX_TICK) <=> spc = "aborted"
    /\ spc = "aborted" =>
        /\ swapError = "Not enough liquidity available in pool"
        /\ pool = before.pool
        /\ tickData = before.tickData
        /\ writes = << >>

\* C8 witness: the swap failed after it had crossed an initialised tick
C8_Witness == spc = "aborted" /\ hist.crossings >= 1 /\ hist.steps >= 2

\* C9 (as claimed): at the end of a swap the fee growth of the paid-in token is
\* strictly greater than at its start if the liquidity was positive in some
\* step, unchanged if it was 0 in every step, and no step decreases it.
C9_StrictFeeGrowth ==
    /\ AfterStep => state.feeGrowthGlobalX >= step.feeGrowthStart
    /\ spc = "returned" =>
        /\ hist.liquidSteps > 0 => state.feeGrowthGlobalX > FeeGrowthAtStart
        /\ hist.liquidSteps = 0 => state.feeGrowthGlobalX = FeeGrowthAtStart

\* C9 (amended): no step decreases the fee growth of the paid-in token; at the
\* end of a swap it is unchanged if the liquidity was 0 in every step, and it is
\* strictly greater than at the start exactly when in some step the liquidity
\* was positive and the fee left to the liquidity providers, divided by the
\* liquidity, was not 0.
C9_MonotoneFeeGrowth ==
    /\ AfterStep => state.feeGrowthGlobalX >= step.feeGrowthStart
    /\ spc = "returned" =>
        /\ hist.creditedSteps > 0 <=> state.feeGrowthGlobalX > FeeGrowthAtStart
        /\ hist.liquidSteps = 0 => state.feeGrowthGlobalX = FeeGrowthAtStart

\* C9 witness: a swap returned with a step at positive liquidity that credited
\* nothing and another that did
C9_Witness ==
    /\ spc = "returned"
    /\ hist.liquidSteps >= 2 /\ hist.creditedSteps = 1
    /\ state.feeGrowthGlobalX > FeeGrowthAtStart

\* C10: in every step with pool.protocolFees > 0 the protocol's share is
\* delta = feeAmount * protocolFees, state.protocolFee grows by delta and the
\* rest of the fee, feeAmount - delta, is what fee growth is credited with
\* (divided by the liquidity); the deltas of a swap add up to at most the fees
\* times protocolFees; with protocolFees = 1/4 and feeAmount = 100 the protocol
\* fee grows by 25 and fee growth by 75 / liquidity; with protocolFees = 0 the
\* protocol fee stays as it was.  (Shares in 1/PROTOCOL_FEE_SCALE units.)
C10_ProtocolFeeSplit ==
    AfterStep =>
        /\ pool.protocolFees > 0 =>
            /\ step.delta = step.feeCharged * pool.protocolFees
            /\ state.protocolFee = step.protocolFeeStart + step.delta
            /\ step.feeAmount + step.delta = step.feeCharged * PROTOCOL_FEE_SCALE
            /\ step.liquidityStart > 0 =>
                  state.feeGrowthGlobalX = step.feeGrowthStart +
                      DividedBy(step.feeAmount * GROWTH_SCALE,
                                PROTOCOL_FEE_SCALE * step.liquidityStart)
            /\ hist.delta <= hist.feeAmount * pool.protocolFees
        /\ (pool.protocolFees = 1 /\ PROTOCOL_FEE_SCALE = 4 /\ step.feeCharged = 100) =>
            /\ state.protocolFee - step.protocolFeeStart = 25 * PROTOCOL_FEE_SCALE
            /\ step.liquidityStart > 0 =>
                  state.feeGrowthGlobalX - step.feeGrowthStart
                      = DividedBy(75 * GROWTH_SCALE, step.liquidityStart)
        /\ pool.protocolFees = 0 => state.protocolFee = 0

\* C10 witness: a step with protocolFees = 1/4 charged a fee of 100 at positive
\* liquidity
C10_Witness ==
    /\ AfterStep /\ pool.protocolFees = 1 /\ step.feeCharged = 100
    /\ step.liquidityStart > 0
    /\ state.feeGrowthGlobalX > step.feeGrowthStart

\* a zeroForOne exact-input swap on a pool at tick 0 with liquidity 10 has just
\* crossed, as its first crossing, the initialised tick one spacing below,
\* whose liquidityNet is +5
CrossedOneTickBelow ==
    /\ AfterStep /\ swap.zeroForOne /\ swap.exactInput
    /\ before.pool.tick = 0 /\ before.pool.liquidity = 10
    /\ step.liquidityStart = 10 /\ hist.crossings = 1
    /\ step.tickNext = -TICK_SPACING /\ step.crossed
    /\ -TICK_SPACING \in DOMAIN before.tickData
    /\ before.tickData[-TICK_SPACING].liquidityNet = 5

\* C11 (as claimed): after a zeroForOne exact-input swap from tick 0 and
\* liquidity 1 unit crosses the initialised tick below whose liquidityNet is
\* +1/2 unit, state.tick is that tick - 1 and state.liquidity is 1 1/2 units
\* (the unit of liquidity is 10).
C11_CrossAddsLiquidity ==
    CrossedOneTickBelow =>
        /\ state.tick = -TICK_SPACING - 1
        /\ state.liquidity = 15

\* C11 (amended): after that crossing state.tick is that tick - 1 and
\* state.liquidity is 1/2 unit: going down, the tick's liquidityNet is
\* subtracted.
C11_CrossRemovesLiquidity ==
    CrossedOneTickBelow =>
        /\ state.tick = -TICK_SPACING - 1
        /\ state.liquidity = 5

\* C11 witness: the crossing happened and left half of the liquidity
C11_Witness == CrossedOneTickBelow /\ state.liquidity = 5 /\ hist.crossings = 1

\* the tick is the one whose price interval holds the price
TickHoldsPrice(tick, sqrtPrice) ==
    tickToSqrtPrice(tick) <= sqrtPrice /\ sqrtPrice < tickToSqrtPrice(tick + 1)

\* the last step was one of a zeroForOne swap in which the price reached the
\* next tick
ReachedNextTickDown == swap.zeroForOne /\ state.sqrtPrice = step.sqrtPriceNext

\* C12 (as claimed): after every step the tick is the one whose price interval
\* holds the price, except immediately after a step of a zeroForOne swap in
\* which the price reached the next tick, where state.tick = step.tickNext - 1.
C12_TickInvariant ==
    AfterStep =>
        IF ReachedNextTickDown
        THEN state.tick = step.tickNext - 1
        ELSE TickHoldsPrice(state.tick, state.sqrtPrice)

\* the price is the lower bound of the next tick's interval
AtUpperBoundary(tick, sqrtPrice) == sqrtPrice = tickToSqrtPrice(tick + 1)

\* C12 (amended): after a step of a zeroForOne swap in which the price reached
\* the next tick, state.tick = step.tickNext - 1 and the price is that of
\* state.tick + 1; after a step that moved the price without reaching the next
\* tick the tick is the one whose price interval holds the price; after a step
\* that left the price where it was the tick is the one before the step, and it
\* holds the price or, in a zeroForOne swap, is still one below the price's
\* tick; in a oneForZero swap the tick always holds the price.
C12_TickInvariantOrBoundary ==
    AfterStep =>
        /\ ReachedNextTickDown =>
              /\ state.tick = step.tickNext - 1
              /\ AtUpperBoundary(state.tick, state.sqrtPrice)
        /\ (~ReachedNextTickDown /\ state.sqrtPrice # step.sqrtPriceStart) =>
              TickHoldsPrice(state.tick, state.sqrtPrice)
        /\ (~ReachedNextTickDown /\ state.sqrtPrice = step.sqrtPriceStart) =>
              /\ state.tick = step.tickStart
              /\ \/ TickHoldsPrice(state.tick, state.sqrtPrice)
                 \/ swap.zeroForOne /\ AtUpperBoundary(state.tick, state.sqrtPrice)
        /\ ~swap.zeroForOne => TickHoldsPrice(state.tick, state.sqrtPrice)

\* C12 witness: a step after the price reached a tick going down left the price
\* there, and the tick one below
C12_Witness ==
    /\ AfterStep /\ swap.zeroForOne /\ hist.steps >= 2
    /\ ~ReachedNextTickDown
    /\ state.sqrtPrice = step.sqrtPriceStart
    /\ AtUpperBoundary(state.tick, state.sqrtPrice)

\* what an iteration that did not abort achieved
RemainingReduced ==
    Abs(f18(state'.amountSpecifiedRemaining)) < Abs(f18(state.amountSpecifiedRemaining))

PriceTowardLimit ==
    IF swap.zeroForOne
    THEN swap.sqrtPriceLimit <= state'.sqrtPrice /\ state'.sqrtPrice < state.sqrtPrice
    ELSE state.sqrtPrice < state'.sqrtPrice /\ state'.sqrtPrice <= swap.sqrtPriceLimit

TickPastNext ==
    IF swap.zeroForOne
    THEN state'.tick = step'.tickNext - 1 /\ state'.tick < state.tick
    ELSE state'.tick = step'.tickNext /\ state'.tick > state.tick

StepProgress ==
    \/ spc' = "aborted"
    \/ /\ RemainingReduced \/ PriceTowardLimit \/ TickPastNext
       /\ <<state'.sqrtPrice, state'.tick, state'.amountSpecifiedRemaining>>
             # <<state.sqrtPrice, state.tick, state.amountSpecifiedRemaining>>

\* what is left to do: the distance of the price from the limit, then of the
\* tick from the end of the tick range in the direction of travel, then the
\* remaining amount under f18; none of them is ever negative
WorkLeft(st) ==
    << Abs(st.sqrtPrice - swap.sqrtPriceLimit),
       IF swap.zeroForOne THEN st.tick - (MIN_TICK - 1) ELSE MAX_TICK - st.tick,
       Abs(f18(st.amountSpecifiedRemaining)) >>

LexLess(a, b) ==
    \/ a[1] < b[1]
    \/ a[1] = b[1] /\ a[2] < b[2]
    \/ a[1] = b[1] /\ a[2] = b[2] /\ a[3] < b[3]

\* C13: every iteration of the loop aborts, or brings f18(amountSpecifiedRemaining)
\* closer to 0, or moves the price toward the limit, or moves the tick past the
\* next tick in the direction of travel, and never leaves price, tick and
\* remaining amount all as they were; the work left is a triple of naturals
\* that every iteration makes lexicographically smaller, so the loop is left
\* after finitely many iterations, by return or by the insufficient-liquidity
\* error.
C13_LoopTerminates ==
    [][SwapStep =>
          /\ StepProgress
          /\ \A i \in 1..3 : WorkLeft(state)[i] >= 0 /\ WorkLeft(state')[i] >= 0
          /\ spc' = "aborted" \/ LexLess(WorkLeft(state'), WorkLeft(state))]_vars

\* C13 witness: a swap returned after several iterations, the last of which
\* moved neither price nor tick and used up the remaining amount
C13_Witness ==
    /\ spc = "returned" /\ hist.steps >= 3
    /\ state.sqrtPrice = step.sqrtPriceStart /\ state.tick = step.tickStart
    /\ f18(state.amountSpecifiedRemaining) = 0

(***************************************************************************)
(* configurePoolDexFee.  A protocol fee is counted in tenths:              *)
(* PROTOCOL_FEE_ONE of them make the fraction 1.                           *)
(***************************************************************************)
PROTOCOL_FEE_ONE == 10

NoConfig == [defined |-> FALSE, authorities |-> {}]
NoError == [kind |-> "", message |-> ""]
NoFeeResponse == [returned |-> FALSE, protocolFee |-> 0]
NoPool == [token0 |-> "", token1 |-> "", fee |-> 0, protocolFees |-> 0]

CallingUsers == {"admin", "curator", "user"}
Tokens == {"GALA", "SILK"}
FeeTiers == {5, 30}
ProtocolFeeValues == {-1, 0, 1, PROTOCOL_FEE_ONE, PROTOCOL_FEE_ONE + 1}

\* the order of token keys (localeCompare)
TokenRank(token) == IF token = "GALA" THEN 1 ELSE 2

\* fetchDexProtocolFeeConfig: the configuration, undefined when there is none
fetchDexProtocolFeeConfig(config) == config

\* validateTokenOrder: token0 must sort before token1
validateTokenOrder(token0, token1) ==
    IF TokenRank(token0) < TokenRank(token1)
    THEN [ok |-> TRUE, token0 |-> token0, token1 |-> token1]
    ELSE [ok |-> FALSE, token0 |-> token0, token1 |-> token1]

\* line 46: the composite key of the pool
PoolKey(token0, token1, fee) == <<token0, token1, NumToStr(fee)>>

\* getObjectByKey: the object stored under the key, or NotFound
getObjectByKey(store, key) ==
    IF key \in DOMAIN store
    THEN [found |-> TRUE, object |-> store[key]]
    ELSE [found |-> FALSE, object |-> NoPool]

\* Pool.configureProtocolFee: a fee outside [0, 1] is refused
configureProtocolFee(p, protocolFee) ==
    IF protocolFee < 0 \/ protocolFee > PROTOCOL_FEE_ONE
    THEN [ok |-> FALSE, pool |-> p]
    ELSE [ok |-> TRUE, pool |-> [p EXCEPT !.protocolFees = protocolFee]]

\* variant: the object is not written
putChainObject_Drop(store, key, object) == store

\* line 51: the object is written under its key
putChainObject(store, key, object) ==
    [k \in (DOMAIN store) \cup {key} |-> IF k = key THEN object ELSE store[k]]

\* variant: every caller passes
IsAuthority_Anyone(config, user) == TRUE

\* line 39: protocolFeeConfig.authorities.includes(ctx.callingUser)
IsAuthority(config, user) == user \in config.authorities

ConfigNotFound ==
    [kind |-> "NotFound",
     message |-> "Protocol fee configuration has yet to be defined. Dex fee configuration is not defined."]
Unauthorized ==
    [kind |-> "Unauthorized", message |-> "CallingUser is not authorized to create or update"]
PoolNotFound == [kind |-> "NotFound", message |-> "pool"]
InvalidTokenOrder == [kind |-> "Validation", message |-> "token order"]
InvalidProtocolFee == [kind |-> "Validation", message |-> "protocol fee"]

\* the pools a ledger may hold: any of the fee tiers of the one ordered pair
StoredPool(fee, protocolFees) ==
    [token0 |-> "GALA", token1 |-> "SILK", fee |-> fee, protocolFees |-> protocolFees]

PoolStores ==
    { [k \in { PoolKey("GALA", "SILK", fee) : fee \in tiers } |->
          StoredPool(IF k[3] = NumToStr(5) THEN 5 ELSE 30, stored)] :
        tiers \in SUBSET FeeTiers, stored \in {0, 3} }

ConfigInit ==
    /\ protocolFeeConfig \in
          {NoConfig} \cup { [defined |-> TRUE, authorities |-> a] :
                               a \in {{"admin"}, {"admin", "curator"}} }
    /\ pools \in PoolStores
    /\ callingUser \in CallingUsers
    /\ feeDto \in [token0 : Tokens, token1 : Tokens, fee : FeeTiers,
                    protocolFee : ProtocolFeeValues]
    /\ cfgPc = "start"
    /\ fetchedPool = NoPool
    /\ cfgError = NoError
    /\ cfgResponse = NoFeeResponse
    /\ poolLookups = {}
    /\ poolPuts = << >>
    /\ poolsBefore = pools

ConfigIdle ==
    /\ protocolFeeConfig = NoConfig
    /\ pools = << >>
    /\ callingUser = "user"
    /\ feeDto = [token0 |-> "GALA", token1 |-> "SILK", fee |-> 5, protocolFee |-> 0]
    /\ cfgPc = "off"
    /\ fetchedPool = NoPool
    /\ cfgError = NoError
    /\ cfgResponse = NoFeeResponse
    /\ poolLookups = {}
    /\ poolPuts = << >>
    /\ poolsBefore = pools

\* lines 34-41: the caller must be an authority of the protocol-fee configuration
CheckAuthority ==
    /\ cfgPc = "start"
    /\ LET config == fetchDexProtocolFeeConfig(protocolFeeConfig) IN
       IF ~config.defined
       THEN cfgPc' = "failed" /\ cfgError' = ConfigNotFound
       ELSE IF ~IsAuthority(config, callingUser)
            THEN cfgPc' = "failed" /\ cfgError' = Unauthorized
            ELSE cfgPc' = "authorised" /\ cfgError' = cfgError
    /\ UNCHANGED <<protocolFeeConfig, pools, callingUser, feeDto, fetchedPool,
                   cfgResponse, poolLookups, poolPuts, poolsBefore>>
    /\ UNCHANGED <<pagingVars, swapVars>>

\* lines 44-47: the pool is fetched by its composite key
FetchPool ==
    /\ cfgPc = "authorised"
    /\ LET order == validateTokenOrder(feeDto.token0, feeDto.token1)
           key   == PoolKey(order.token0, order.token1, feeDto.fee)
           got   == getObjectByKey(pools, key)
       IN
       IF ~order.ok
       THEN /\ cfgPc' = "failed" /\ cfgError' = InvalidTokenOrder
            /\ UNCHANGED <<fetchedPool, poolLookups>>
       ELSE /\ poolLookups' = poolLookups \cup {key}
            /\ IF got.found
               THEN cfgPc' = "fetched" /\ fetchedPool' = got.object
                    /\ cfgError' = cfgError
               ELSE cfgPc' = "failed" /\ cfgError' = PoolNotFound
                    /\ fetchedPool' = fetchedPool
    /\ UNCHANGED <<protocolFeeConfig, pools, callingUser, feeDto, cfgResponse,
                   poolPuts, poolsBefore>>
    /\ UNCHANGED <<pagingVars, swapVars>>

\* lines 50-53: the fee is set, the pool is saved, the fee is returned
ConfigureAndSave ==
    /\ cfgPc = "fetched"
    /\ LET configured == configureProtocolFee(fetchedPool, feeDto.protocolFee)
           key == PoolKey(fetchedPool.token0, fetchedPool.token1, fetchedPool.fee)
       IN
       IF ~configured.ok
       THEN /\ cfgPc' = "failed" /\ cfgError' = InvalidProtocolFee
            /\ UNCHANGED <<pools, fetchedPool, cfgResponse, poolPuts>>
       ELSE /\ fetchedPool' = configured.pool
            /\ pools' = putChainObject(pools, key, configured.pool)
            /\ poolPuts' = Append(poolPuts, key)
            /\ cfgResponse' = [returned |-> TRUE, protocolFee |-> feeDto.protocolFee]
            /\ cfgPc' = "done"
            /\ cfgError' = cfgError
    /\ UNCHANGED <<protocolFeeConfig, callingUser, feeDto, poolLookups, poolsBefore>>
    /\ UNCHANGED <<pagingVars, swapVars>>

ConfigNext == CheckAuthority \/ FetchPool \/ ConfigureAndSave

(***************************************************************************)
(* Properties of configurePoolDexFee                                       *)
(***************************************************************************)
NoPoolAccess == poolLookups = {} /\ poolPuts = << >> /\ pools = poolsBefore

\* C14: once the gate has run, a call without protocol-fee configuration has
\* failed with NotFound, and otherwise a call by a user who is not among the
\* authorities has failed with Unauthorized, whatever the request's tokens, fee
\* tier and protocolFee and whether or not the pool exists; in both cases no
\* pool was looked up or written; a pool is looked up or written only for an
\* authority.
C14_GateBeforePool ==
    /\ cfgPc \notin {"off", "start"} =>
          /\ ~protocolFeeConfig.defined =>
                cfgPc = "failed" /\ cfgError = ConfigNotFound /\ NoPoolAccess
          /\ (protocolFeeConfig.defined /\ callingUser \notin protocolFeeConfig.authorities) =>
                cfgPc = "failed" /\ cfgError = Unauthorized /\ NoPoolAccess
    /\ ~NoPoolAccess =>
          protocolFeeConfig.defined /\ callingUser \in protocolFeeConfig.authorities

\* C14 witness: a user who is no authority was refused a request that an
\* authority would have been granted
C14_Witness ==
    /\ cfgPc = "failed" /\ cfgError = Unauthorized
    /\ callingUser \notin protocolFeeConfig.authorities
    /\ validateTokenOrder(feeDto.token0, feeDto.token1).ok
    /\ PoolKey(feeDto.token0, feeDto.token1, feeDto.fee) \in DOMAIN pools
    /\ feeDto.protocolFee = 1

\* the key of the pool the request names
RequestedKey == PoolKey(feeDto.token0, feeDto.token1, feeDto.fee)

ProtocolFeeInRange == 0 <= feeDto.protocolFee /\ feeDto.protocolFee <= PROTOCOL_FEE_ONE

\* C15: a finished call by an authority with tokens in order: if the pool
\* exists and protocolFee is outside [0, 1] (as 1.1) it failed with a validation
\* error and the ledger's pools are as before, nothing was written; if the pool
\* exists and protocolFee is inside [0, 1] (as 0.1) it succeeded, the pool was
\* written once and is stored with the new fee, every other pool is as before,
\* and the response carries the fee; if the pool does not exist it failed with
\* NotFound and wrote nothing.
C15_ConfigureOutcome ==
    ( /\ cfgPc \in {"done", "failed"}
      /\ protocolFeeConfig.defined /\ callingUser \in protocolFeeConfig.authorities
      /\ TokenRank(feeDto.token0) < TokenRank(feeDto.token1) ) =>
        /\ (RequestedKey \in DOMAIN poolsBefore /\ ~ProtocolFeeInRange) =>
              /\ cfgPc = "failed" /\ cfgError.kind = "Validation"
              /\ pools = poolsBefore /\ poolPuts = << >>
              /\ ~cfgResponse.returned
        /\ (RequestedKey \in DOMAIN poolsBefore /\ ProtocolFeeInRange) =>
              /\ cfgPc = "done" /\ cfgError = NoError
              /\ poolPuts = <<RequestedKey>>
              /\ DOMAIN pools = DOMAIN poolsBefore
              /\ pools[RequestedKey] =
                    [poolsBefore[RequestedKey] EXCEPT !.protocolFees = feeDto.protocolFee]
              /\ \A k \in DOMAIN pools : k # RequestedKey => pools[k] = poolsBefore[k]
              /\ cfgResponse = [returned |-> TRUE, protocolFee |-> feeDto.protocolFee]
        /\ RequestedKey \notin DOMAIN poolsBefore =>
              /\ cfgPc = "failed" /\ cfgError.kind = "NotFound"
              /\ pools = poolsBefore /\ poolPuts = << >>

\* C15 witness: an authority changed the protocol fee of one of two pools from
\* 0.3 to 0.1
C15_Witness ==
    /\ cfgPc = "done" /\ feeDto.protocolFee = 1
    /\ Cardinality(DOMAIN pools) = 2
    /\ poolsBefore[RequestedKey].protocolFees = 3
    /\ pools[RequestedKey].protocolFees = 1

PagesRead == { ((i - 1) \div PAGE_SIZE) + 1 : i \in reads }

LastPageRead == SetMax(PagesRead)

\* the number of positions on the pages the call went through before the last
\* page it fetched
PositionsPassed == PositionsBefore(LastPageRead) - PositionsBefore(BookmarkPage(dto.bookmark))

\* the last position returned is the last one of its ledger page
LastOfPageConsumed ==
    /\ response.positions # <<>>
    /\ LET last == response.positions[Len(response.positions)]
       IN  IndexInPage(last) = Len(PagePositions(PageOfPosition(last)))

\* the chain part is the cursor of the page after the last one fetched, the
\* local part is empty
PointsToNextPage ==
    /\ splitBookmark(response.bookmark).localBookmark = EmptyString
    /\ splitBookmark(response.bookmark).chainBookmark = PageCursor(LastPageRead + 1)

ReachedNextTick == state.sqrtPrice = step.sqrtPriceNext

\* the liquidityNet of the tick the step went for
NextTickLiquidityNet == TickRecord(before.tickData, << >>, step.tickNext).liquidityNet

\* what C18 says of a step that reached the next tick, and of one that moved
\* the price without reaching it
CrossingRule ==
    /\ ReachedNextTick =>
          /\ state.tick = IF swap.zeroForOne THEN step.tickNext - 1 ELSE step.tickNext
          /\ step.initialised =>
                state.liquidity = step.liquidityStart +
                    (IF swap.zeroForOne THEN -NextTickLiquidityNet ELSE NextTickLiquidityNet)
    /\ (~ReachedNextTick /\ state.sqrtPrice # step.sqrtPriceStart) =>
          state.tick = sqrtPriceToTick(state.sqrtPrice)

\* C18 (as claimed): a step that ends at the next tick's price sets state.tick
\* to tickNext - 1 (zeroForOne) or tickNext and, if the tick is initialised,
\* changes state.liquidity by -liquidityNet (zeroForOne) or +liquidityNet; a
\* step that moved the price without reaching the next tick sets state.tick to
\* sqrtPriceToTick(state.sqrtPrice); a step that did not change the price
\* leaves state.tick unchanged.
C18_TickCrossingStep ==
    AfterStep =>
        /\ CrossingRule
        /\ state.sqrtPrice = step.sqrtPriceStart => state.tick = step.tickStart

\* C18 (amended): as claimed, but a step leaves state.tick unchanged when it
\* did not change the price and the price is not the next tick's; a step that
\* begins at the next tick's price reaches it without changing the price and
\* is a crossing; state.liquidity changes in no other step than the crossing
\* of an initialised tick.
C18_TickCrossingFirst ==
    AfterStep =>
        /\ CrossingRule
        /\ (~ReachedNextTick /\ state.sqrtPrice = step.sqrtPriceStart) =>
              state.tick = step.tickStart
        /\ ~(ReachedNextTick /\ step.initialised) => state.liquidity = step.liquidityStart

\* C18 witness: a zeroForOne step that began at the next tick's price moved the
\* tick below it without moving the price
C18_Witness ==
    /\ AfterStep /\ swap.zeroForOne /\ ReachedNextTick
    /\ state.sqrtPrice = step.sqrtPriceStart
    /\ state.tick = step.tickNext - 1
    /\ state.tick < step.tickStart

\* the fee-growth pair the last crossing handed over, read off the record it
\* wrote: crossing sets each outside value to the global one minus the old
\* outside value, and a swap crosses a tick once
HandedFeeGrowth ==
    [feeGrowthGlobal0 |-> writes[step.tickNext].feeGrowthOutside0 +
                          before.tickData[step.tickNext].feeGrowthOutside0,
     feeGrowthGlobal1 |-> writes[step.tickNext].feeGrowthOutside1 +
                          before.tickData[step.tickNext].feeGrowthOutside1]

\* the accumulator of the paid-in token with the fee of the last step added
GrowthWithStepFee ==
    IF step.liquidityStart > 0
    THEN step.feeGrowthStart + FeePerLiquidity(step.feeAmount, step.liquidityStart)
    ELSE step.feeGrowthStart

\* C19: when a step crosses an initialised tick, the pair handed to
\* fetchOrCreateAndCrossTick is (fee growth of the paid-in token with this
\* step's fee already added, pool.feeGrowthGlobal1) when zeroForOne and
\* (pool.feeGrowthGlobal0, that fee growth) otherwise, and the accumulator of
\* the token not paid in is the pool's value from before the swap.
C19_FeeBeforeCrossing ==
    (AfterStep /\ step.crossed) =>
        /\ state.feeGrowthGlobalX = GrowthWithStepFee
        /\ HandedFeeGrowth =
              IF swap.zeroForOne
              THEN [feeGrowthGlobal0 |-> GrowthWithStepFee,
                    feeGrowthGlobal1 |-> before.pool.feeGrowthGlobal1]
              ELSE [feeGrowthGlobal0 |-> before.pool.feeGrowthGlobal0,
                    feeGrowthGlobal1 |-> GrowthWithStepFee]

\* C19 witness: a oneForZero step that earned the liquidity providers a fee
\* crossed an initialised tick, after an earlier step had earned one too
C19_Witness ==
    /\ spc = "running" /\ step.crossed /\ ~swap.zeroForOne
    /\ GrowthWithStepFee > step.feeGrowthStart
    /\ step.feeGrowthStart > before.pool.feeGrowthGlobal1
    /\ HandedFeeGrowth.feeGrowthGlobal1 = GrowthWithStepFee

(***************************************************************************)
(* Signs of the amounts                                                    *)
(***************************************************************************)
\* C20: throughout an exact-input swap amountSpecifiedRemaining
\* never grows and is never negative and amountCalculated never grows and is
\* at most 0; throughout an exact-output swap amountSpecifiedRemaining never
\* shrinks and is never positive and amountCalculated never shrinks and is at
\* least 0; the amounts computeSwapStep returns are never negative.
C20_SignConvention ==
    /\ [](spc \in {"running", "returned"} =>
            /\ step.amountIn >= 0 /\ step.amountOut >= 0 /\ step.feeCharged >= 0
            /\ IF swap.exactInput
               THEN state.amountSpecifiedRemaining >= 0 /\ state.amountCalculated <= 0
               ELSE state.amountSpecifiedRemaining <= 0 /\ state.amountCalculated >= 0)
    /\ [][SwapStep =>
            IF swap.exactInput
            THEN /\ state'.amountSpecifiedRemaining <= state.amountSpecifiedRemaining
                 /\ state'.amountCalculated <= state.amountCalculated
            ELSE /\ state'.amountSpecifiedRemaining >= state.amountSpecifiedRemaining
                 /\ state'.amountCalculated >= state.amountCalculated]_vars

\* C20 witness: an exact-output swap is under way after two steps, with output
\* still owed and input charged
C20_Witness ==
    /\ spc = "running" /\ ~swap.exactInput /\ hist.steps >= 2
    /\ state.amountSpecifiedRemaining < 0
    /\ state.amountSpecifiedRemaining > swap.amount
    /\ state.amountCalculated > 0
    /\ step.feeCharged > 0

\* C21: the active liquidity is never negative: not when a swap starts, not
\* after any of its steps, and in particular not after a step that crossed a
\* tick and added or subtracted that tick's liquidityNet; this holds for a swap
\* on a freshly built pool and for a swap on the pool another swap left
C21_LiquidityNonNegative ==
    /\ state.liquidity >= 0
    /\ step.liquidityStart >= 0
    /\ pool.liquidity >= 0

\* C21 witness: a second swap starts on a pool whose price an earlier downward
\* swap left exactly on a tick, crosses two ticks, and its last crossing took
\* liquidity away and left none
C21_Witness ==
    /\ swappedBefore /\ AfterStep /\ step.crossed /\ hist.crossings >= 2
    /\ before.pool.tick # sqrtPriceToTick(before.pool.sqrtPrice)
    /\ step.liquidityStart > 0
    /\ state.liquidity = 0

\* the step just made ended on the price of its next tick and the pool's
\* bitmap has that tick initialised
ReachesInitialisedTick ==
    /\ state'.sqrtPrice = tickToSqrtPrice(step'.tickNext)
    /\ step'.tickNext \in pool.bitmap

\* the tick records the transaction holds differ at most in the record of t
OnlyTouches(t) ==
    /\ DOMAIN writes' = (DOMAIN writes) \cup {t}
    /\ \A u \in DOMAIN writes : u # t => writes'[u] = writes[u]

\* C22: a step of processSwapSteps leaves the pool object and the committed
\* tick records as they are; a step whose price reaches an initialised next
\* tick touches the record of that tick and no other; any other step (the price
\* stops before the next tick, or the tick reached is an uninitialised word
\* boundary) leaves state.liquidity and every tick record alone; a step that
\* throws leaves the state alone.  Until the caller writes the state back, the
\* pool is the one the swap began with.
C22_StepFrame ==
    /\ [][SwapStep =>
            /\ pool' = pool
            /\ tickData' = tickData
            /\ IF spc' = "aborted"
               THEN state' = state
               ELSE IF ReachesInitialisedTick
                    THEN OnlyTouches(step'.tickNext)
                    ELSE writes' = writes /\ state'.liquidity = state.liquidity]_vars
    /\ [](spc \in {"running", "returned", "aborted"} =>
            pool = before.pool /\ tickData = before.tickData)

\* C22 witness: the swap has crossed a tick, its record is held by the
\* transaction, and the last step reached an uninitialised word-boundary tick
\* with liquidity in range
C22_Witness ==
    /\ AfterStep /\ hist.crossings >= 1 /\ DOMAIN writes # {}
    /\ ~step.crossed /\ ~step.initialised
    /\ state.sqrtPrice = step.sqrtPriceNext
    /\ state.sqrtPrice # step.sqrtPriceStart
    /\ state.liquidity = step.liquidityStart /\ state.liquidity > 0
    /\ pool = before.pool

\* the request's chain cursor points to the last ledger page and its local
\* offset is the number of positions of that page
OffsetAtEndOfLastPage ==
    /\ NumPages(ledger) >= 1
    /\ BookmarkPage(dto.bookmark) = NumPages(ledger)
    /\ Len(PagePositions(NumPages(ledger))) >= 1
    /\ BookmarkLocal(dto.bookmark) = Len(PagePositions(NumPages(ledger)))

\* C23 (as claimed): for a limit >= 1 and any bookmark, a call that succeeds and
\* returns no position returns the empty bookmark; in particular so does a call
\* whose local offset is the number of positions of the last page.
C23_EmptyResultEmptyBookmark ==
    (pc = "done" /\ dto.limit >= 1 /\ response.positions = <<>>)
        => response.bookmark = EmptyString

\* what the code does for that offset: the page is skipped as consumed, the
\* loop ends without isLastIteration, and the bookmark handed back is the empty
\* chain cursor with the local offset plus the limit
C23_OffsetAtEndOutcome ==
    (pc = "done" /\ dto.limit >= 1 /\ OffsetAtEndOfLastPage)
        => /\ response.positions = <<>>
           /\ response.bookmark =
                  genBookMark(EmptyString,
                              NumToStr(BookmarkLocal(dto.bookmark) + dto.limit))

\* a call with that offset has finished
C23_OffsetAtEndReached ==
    pc = "done" /\ dto.limit >= 1 /\ OffsetAtEndOfLastPage

(***************************************************************************)
(* Specifications                                                          *)
(***************************************************************************)
PagingSpecInit == PagingInit /\ SwapIdle /\ ConfigIdle

PagingSpec == PagingSpecInit /\ [][PagingNext]_vars

\* one call and the same call once more
PagingAgainSpec == PagingSpecInit /\ [][PagingAgainNext]_vars

SwapSpecInit == SwapInit /\ PagingIdle /\ ConfigIdle

SwapSpec == SwapSpecInit /\ [][SwapNext]_vars

\* one swap and a second one on the pool it leaves
SwapAgainSpec == SwapSpecInit /\ [][SwapAgainNext]_vars

ConfigSpecInit == ConfigInit /\ PagingIdle /\ SwapIdle

ConfigSpec == ConfigSpecInit /\ [][ConfigNext]_vars

====
